---------------------------- MODULE Spec2Model ----------------------------
(***************************************************************************)
(* A model of mint's encrypted handshake: the payload codec (Req, Resp),  *)
(* the framer (write_msg, read_msg) and the two handshake roles            *)
(* (client_handshake, server_handshake) of src/src/proto.rs.               *)
(*                                                                         *)
(* Bytes are the integers 0..255 and buffers are sequences of bytes.       *)
(* Rust's Option is a record with tag "None" or "Some"; a panic (an        *)
(* out-of-range index or slice, an unwrap of Err) is the tag "Panic".      *)
(*                                                                         *)
(* ChaCha20Poly1305 is an external crate.  It is modelled as an AEAD whose *)
(* keystream and 16-byte tag are keyed mixing functions of the key, the    *)
(* nonce, the associated data and the ciphertext: opening succeeds exactly *)
(* when the recomputed tag equals the transmitted one.                     *)
(***************************************************************************)
EXTENDS Integers, Sequences, FiniteSets, TLC

(***************************************************************************)
(* Program constants.                                                      *)
(***************************************************************************)
NONCE_LEN == 12
OVERHEAD_LEN == 16
VER == 0
REP_OK == 0

EOH == <<13, 10, 13, 10>>

fake_req_header ==
  <<80, 79, 83, 84, 32, 47, 117, 112, 108, 111, 97, 100, 32, 72, 84, 84, 80,
    47, 49, 46, 49, 13, 10, 72, 79, 83, 84, 58, 32, 119, 119, 119, 46, 97,
    112, 112, 108, 101, 46, 99, 111, 109, 13, 10, 13, 10>>

fake_resp_header ==
  <<72, 84, 84, 80, 47, 49, 46, 49, 32, 50, 48, 48, 32, 79, 75, 13, 10, 13, 10>>

(***************************************************************************)
(* Bounds of the model.                                                    *)
(***************************************************************************)
MaxHostLen == 2      \* hosts of 0..MaxHostLen bytes
MaxHsHostLen == 1    \* hosts of framed messages and sessions: 0..MaxHsHostLen bytes
MaxRawLen == 5       \* raw plaintexts handed to the decoders
MaxNonce == 2        \* nonces NonceOf(0) .. NonceOf(MaxNonce)
MaxKey == 2          \* keys 1..MaxKey
MaxCode == 2         \* reply codes 0..MaxCode, and 255

(***************************************************************************)
(* Option values.                                                          *)
(***************************************************************************)
None == [tag |-> "None"]
Panic == [tag |-> "Panic"]
Unset == [tag |-> "Unset"]
Some(v) == [tag |-> "Some", val |-> v]

(***************************************************************************)
(* Byte helpers.                                                           *)
(***************************************************************************)
\* Rust's buf[a..b] (0-based, b exclusive); the caller checks the range.
Slice(buf, a, b) == SubSeq(buf, a + 1, b)

\* put_u16 / u16::from_be_bytes: big-endian.
U16Bytes(n) == <<(n % 65536) \div 256, n % 256>>
U16From(b) == b[1] * 256 + b[2]

\* Bit k of byte a.
Bit(a, k) == (a \div (2 ^ k)) % 2

\* Bitwise exclusive or of two bytes.
Xor8(a, b) ==
  LET x(k) == ((Bit(a, k) + Bit(b, k)) % 2) * (2 ^ k)
  IN  x(0) + x(1) + x(2) + x(3) + x(4) + x(5) + x(6) + x(7)

\* buf with bit k (0..7) of its byte at 1-based position i flipped.
FlipBit(buf, i, k) == [buf EXCEPT ![i] = Xor8(buf[i], 2 ^ k)]

\* All sequences over S of length 0..n.
SeqsUpTo(S, n) == UNION {[1..k -> S] : k \in 0..n}

(***************************************************************************)
(* str::from_utf8: whether the bytes are well-formed UTF-8.                *)
(***************************************************************************)
IsCont(x) == x >= 128 /\ x <= 191

\* The length of the well-formed UTF-8 character that starts at s[i], or 0.
CharLen(s, i) ==
  LET b == s[i]
      n == Len(s) - i + 1
  IN  IF b <= 127 THEN 1
      ELSE IF b >= 194 /\ b <= 223
        THEN (IF n >= 2 /\ IsCont(s[i + 1]) THEN 2 ELSE 0)
      ELSE IF b = 224
        THEN (IF n >= 3 /\ s[i + 1] >= 160 /\ s[i + 1] <= 191 /\ IsCont(s[i + 2])
                THEN 3 ELSE 0)
      ELSE IF (b >= 225 /\ b <= 236) \/ b = 238 \/ b = 239
        THEN (IF n >= 3 /\ IsCont(s[i + 1]) /\ IsCont(s[i + 2]) THEN 3 ELSE 0)
      ELSE IF b = 237
        THEN (IF n >= 3 /\ s[i + 1] >= 128 /\ s[i + 1] <= 159 /\ IsCont(s[i + 2])
                THEN 3 ELSE 0)
      ELSE IF b = 240
        THEN (IF n >= 4 /\ s[i + 1] >= 144 /\ s[i + 1] <= 191 /\ IsCont(s[i + 2])
                   /\ IsCont(s[i + 3])
                THEN 4 ELSE 0)
      ELSE IF b >= 241 /\ b <= 243
        THEN (IF n >= 4 /\ IsCont(s[i + 1]) /\ IsCont(s[i + 2]) /\ IsCont(s[i + 3])
                THEN 4 ELSE 0)
      ELSE IF b = 244
        THEN (IF n >= 4 /\ s[i + 1] >= 128 /\ s[i + 1] <= 143 /\ IsCont(s[i + 2])
                   /\ IsCont(s[i + 3])
                THEN 4 ELSE 0)
      ELSE 0

\* Every byte that is no continuation byte starts a well-formed character,
\* and every continuation byte belongs to the character that starts at the
\* nearest byte before it that is no continuation byte.
ValidUtf8(s) ==
  \A i \in 1..Len(s) :
    IF IsCont(s[i])
      THEN \E k \in 1..3 :
             /\ i - k >= 1
             /\ ~IsCont(s[i - k])
             /\ \A m \in 1..(k - 1) : IsCont(s[i - m])
             /\ CharLen(s, i - k) > k
      ELSE CharLen(s, i) > 0

(***************************************************************************)
(* Payload codec: impl Payload for Req, impl Payload for Resp.             *)
(***************************************************************************)
Req(host, port) == [kind |-> "Req", host |-> host, port |-> port]
Resp(code) == [kind |-> "Resp", code |-> code]

\* Req::len: 1 + host.len() + 2.
Req_len(p) == 1 + Len(p.host) + 2

\* Req::write with the port written little-endian.
Req_write_le(p) ==
  <<VER, Len(p.host) % 256>> \o p.host \o <<p.port % 256, (p.port % 65536) \div 256>>

\* Req::write: VER, host.len() as u8, the host bytes, the port big-endian.
Req_write(p) == <<VER, Len(p.host) % 256>> \o p.host \o U16Bytes(p.port)

\* Req::read.  buf[0] and buf[1] are unchecked indexings.
Req_read(buf) ==
  IF Len(buf) < 1 THEN Panic
  ELSE IF buf[1] # VER THEN None
  ELSE IF Len(buf) < 2 THEN Panic
  ELSE LET len == buf[2]
       IN  IF Len(buf) # 2 + len + 2 THEN None
           ELSE IF ~ValidUtf8(Slice(buf, 2, 2 + len)) THEN None
           ELSE Some(Req(Slice(buf, 2, 2 + len),
                         U16From(Slice(buf, 2 + len, Len(buf)))))

\* Resp::len.
Resp_len(p) == 1

\* Resp::write.
Resp_write(p) == <<p.code>>

\* Resp::read.
Resp_read(buf) ==
  IF Len(buf) # 1 THEN None ELSE Some(Resp(buf[1]))

\* The trait's dispatch on the payload type.
Payload_len(p) == IF p.kind = "Req" THEN Req_len(p) ELSE Resp_len(p)
Payload_write(p) == IF p.kind = "Req" THEN Req_write(p) ELSE Resp_write(p)
Payload_read(kind, buf) == IF kind = "Req" THEN Req_read(buf) ELSE Resp_read(buf)

(***************************************************************************)
(* The AEAD (chacha20poly1305's encrypt_in_place and decrypt_in_place).    *)
(* A key is a number 1..MaxKey; a nonce is NONCE_LEN bytes.                *)
(***************************************************************************)
\* F(v), with v evaluated once.
Eager(v, F(_)) == CHOOSE r \in {F(x) : x \in {v}} : TRUE

\* The digest of bytes lo..hi of s from state h: h becomes (h * m + byte + 1)
\* mod p at each byte, in order (the range is halved to keep the evaluation
\* shallow).
RECURSIVE MixRange(_, _, _, _, _, _)
MixRange(h, m, p, s, lo, hi) ==
  IF lo > hi THEN h
  ELSE IF lo = hi THEN ((h * m) + s[lo] + 1) % p
  ELSE Eager(MixRange(h, m, p, s, lo, (lo + hi) \div 2),
             LAMBDA hl : MixRange(hl, m, p, s, ((lo + hi) \div 2) + 1, hi))

Mix(h, m, p, s, i) == MixRange(h, m, p, s, i, Len(s))

\* The stream cipher, its own inverse: byte i is xor'ed with byte i of the
\* keystream of (key, nonce).
Crypt(key, nonce, data) ==
  Eager(Mix(key * 131, 37, 65521, nonce, 1),
        LAMBDA ks : [i \in 1..Len(data) |->
                       Xor8(data[i], ((ks * (i + 7)) + i) % 256)])

\* The 16-byte tag over the nonce, the associated data and the ciphertext:
\* two keyed digests h1, h2 and bytes mixed from them.
TagBytes(key, h1, h2) ==
  [j \in 1..OVERHEAD_LEN |->
     IF j = 1 THEN h1 \div 256
     ELSE IF j = 2 THEN h1 % 256
     ELSE IF j = 3 THEN h2 \div 256
     ELSE IF j = 4 THEN h2 % 256
     ELSE (h1 + (j * h2) + (key * j)) % 256]

Tag(key, nonce, aad, ct) ==
  Eager(nonce \o aad \o <<Len(aad) % 256>> \o U16Bytes(Len(ct)) \o ct,
        LAMBDA input :
          Eager(<<Mix(key * 257, 31, 65521, input, 1),
                  Mix((key * 263) + 1, 43, 65519, input, 1)>>,
                LAMBDA h : TagBytes(key, h[1], h[2])))

\* encrypt_in_place: the plaintext becomes ciphertext followed by the tag.
encrypt_in_place(key, nonce, aad, pt) ==
  Eager(Crypt(key, nonce, pt), LAMBDA ct : ct \o Tag(key, nonce, aad, ct))

\* decrypt_in_place: Err (None) on a buffer shorter than the tag or on a tag
\* mismatch, else the plaintext.
decrypt_in_place(key, nonce, aad, sealed) ==
  IF Len(sealed) < OVERHEAD_LEN THEN None
  ELSE LET n == Len(sealed) - OVERHEAD_LEN
           ct == SubSeq(sealed, 1, n)
           tag == SubSeq(sealed, n + 1, Len(sealed))
       IN  IF tag # Tag(key, nonce, aad, ct) THEN None
           ELSE Some(Crypt(key, nonce, ct))

(***************************************************************************)
(* The framer.                                                             *)
(***************************************************************************)
\* The 2-byte length field write_msg puts: (payload.len() + OVERHEAD_LEN) as u16.
LenField(payload) == U16Bytes((Payload_len(payload) + OVERHEAD_LEN) % 65536)

\* No associated data is handed to the cipher.
Aad_empty(len) == <<>>

\* The associated data handed to the cipher: the two length bytes
\* (buf[payload_offset - 2..] in write_msg, buf[len_offset..len_offset + 2] in
\* read_msg).
Aad(len) == len

\* write_msg on an empty buffer: header, nonce, length, sealed payload.
write_msg(key, header, nonce, payload) ==
  LET len == LenField(payload)
  IN  header \o nonce \o len
        \o encrypt_in_place(key, nonce, Aad(len), Payload_write(payload))

\* The 0-based index of the last occurrence of EOH, or -1.
FindEOH_last(buf) ==
  LET hits == {i \in 1..(Len(buf) - 3) : SubSeq(buf, i, i + 3) = EOH}
  IN  IF hits = {} THEN -1
      ELSE (CHOOSE i \in hits : \A j \in hits : i >= j) - 1

\* windows(4).position(|w| w == EOH): the 0-based index of the first
\* occurrence, or -1.
FindEOH(buf) ==
  LET hits == {i \in 1..(Len(buf) - 3) : SubSeq(buf, i, i + 3) = EOH}
  IN  IF hits = {} THEN -1
      ELSE (CHOOSE i \in hits : \A j \in hits : i <= j) - 1

\* read_msg with the sealed region delimited by the length field's value:
\* the bytes after it are left alone.
ReadMsg_delimited(key, kind, buf) ==
  LET eoh == FindEOH(buf)
      nonce_offset == eoh + Len(EOH)
      len_offset == nonce_offset + NONCE_LEN
      payload_offset == len_offset + 2
  IN  IF eoh < 0 THEN [ret |-> None, buf |-> buf]
      ELSE IF Len(buf) < len_offset + 2 THEN [ret |-> Panic, buf |-> buf]
      ELSE LET len == U16From(Slice(buf, len_offset, len_offset + 2))
               end == IF payload_offset + len < Len(buf)
                        THEN payload_offset + len ELSE Len(buf)
               opened == decrypt_in_place(key,
                           Slice(buf, nonce_offset, nonce_offset + NONCE_LEN),
                           Aad(Slice(buf, len_offset, len_offset + 2)),
                           Slice(buf, payload_offset, end))
           IN  IF opened.tag = "None"
                 THEN [ret |-> None, buf |-> Slice(buf, 0, payload_offset)]
                 ELSE [ret |-> Payload_read(kind, opened.val),
                       buf |-> Slice(buf, 0, payload_offset) \o opened.val]

\* read_msg::<T>: what it returns (ret) and what it leaves in the caller's
\* buffer (buf).  buf[len_offset..len_offset + 2] is an unchecked slice.  The
\* sealed region is split off, opened in place and joined back on success; on
\* a failed open it is dropped with the early return.
ReadMsg(key, kind, buf) ==
  LET eoh == FindEOH(buf)
      nonce_offset == eoh + Len(EOH)
      len_offset == nonce_offset + NONCE_LEN
      payload_offset == len_offset + 2
  IN  IF eoh < 0 THEN [ret |-> None, buf |-> buf]
      ELSE IF Len(buf) < len_offset + 2 THEN [ret |-> Panic, buf |-> buf]
      ELSE Eager(decrypt_in_place(key,
                   Slice(buf, nonce_offset, nonce_offset + NONCE_LEN),
                   Aad(Slice(buf, len_offset, len_offset + 2)),
                   Slice(buf, payload_offset, Len(buf))),
                 LAMBDA opened :
                   IF opened.tag = "None"
                     THEN [ret |-> None, buf |-> Slice(buf, 0, payload_offset)]
                     ELSE [ret |-> Payload_read(kind, opened.val),
                           buf |-> Slice(buf, 0, payload_offset) \o opened.val])

read_msg(key, kind, buf) == ReadMsg(key, kind, buf).ret

(***************************************************************************)
(* Inputs.                                                                 *)
(***************************************************************************)
HostBytes == {97, 195, 169}
\* A host is a &str: well-formed UTF-8.
Hosts == {h \in SeqsUpTo(HostBytes, MaxHostLen) : ValidUtf8(h)}
Ports == {443, 3338}
Codes == (0..MaxCode) \cup {255}
Keys == 1..MaxKey

\* generate_nonce(&mut OsRng) returns any NONCE_LEN bytes; these are the ones
\* the model draws.  NonceOf(1) is CR LF CR LF ...
NonceOf(k) ==
  [i \in 1..NONCE_LEN |->
     IF k = 0 THEN 0
     ELSE IF k = 1 THEN (IF i % 2 = 1 THEN 13 ELSE 10)
     ELSE ((k * i * 37) + k) % 256]
Nonces == {NonceOf(k) : k \in 0..MaxNonce}

\* Headers: the client's built-in one, short ones ending in EOH, and one with
\* an earlier EOH.
Headers ==
  {fake_req_header, EOH, <<13, 10, 13, 13, 10, 13, 10>>,
   <<13, 10, 13, 10, 71, 13, 10, 13, 10>>}

\* The header ends in EOH and holds no earlier EOH.
GoodHeader(h) == Len(h) >= 4 /\ FindEOH(h) = Len(h) - 4

Payloads ==
  {Req(h, p) : h \in Hosts, p \in Ports} \cup {Resp(c) : c \in Codes}

\* The hosts of the framed messages and of the handshake sessions.
HsHosts == {h \in Hosts : Len(h) <= MaxHsHostLen}
FrPayloads ==
  {Req(h, p) : h \in HsHosts, p \in Ports} \cup {Resp(c) : c \in Codes}

\* The longest host whose length fits the one-byte length field, and the
\* next longer one.
U8_MAX == 255
LongHost(n) == [i \in 1..n |-> 97]
LongPayloads == {Req(LongHost(n), 443) : n \in {U8_MAX, U8_MAX + 1}}

RawBytes == {0, 1, 97, 195, 169}
Raws == SeqsUpTo(RawBytes, MaxRawLen)

(***************************************************************************)
(* State.                                                                  *)
(*   stage, arg, wire, how, res: the codec and the framer applied to one   *)
(*   input: the input, the buffer, how the buffer was altered, the result. *)
(*   One handshake session over a connected stream pair:                   *)
(*   cfg        the keys, the destination and the server's header;         *)
(*   cpc, spc   where client_handshake and server_handshake stand;         *)
(*   cbuf, sbuf their buffers;                                             *)
(*   c2s, s2c   the bytes in flight to the server and to the client;       *)
(*   cresp, sreq what read_msg returned to the client and to the server;   *)
(*   cret, sret what the two functions returned;                           *)
(*   hist       what happened on the streams (a history, not program       *)
(*              state): completed writes and reads of each side, the bytes *)
(*              the server wrote, the bytes each side's read returned,     *)
(*              whether the peer's bytes were injected,                    *)
(*              and whether an I/O error or a partial read occurred.       *)
(***************************************************************************)
VARIABLES stage, arg, wire, how, res,
          cfg, cpc, spc, cbuf, sbuf, c2s, s2c, cresp, sreq, cret, sret, hist

(***************************************************************************)
(* The orchestrator (server() and client() of main.rs):                    *)
(*   role       which of the two runs;                                      *)
(*   cipher     the key of the cipher every session's clone comes from;    *)
(*   running    the accept loop is running (the LocalSet is driven);       *)
(*   accerrs    how many times accept returned an error (a history);       *)
(*   sess       the sessions, one per accepted connection: the task's      *)
(*              position and how it ended, its buffer, its destination,    *)
(*              its two sockets, the bytes in flight from the tunnel peer, *)
(*              what the handshake returned, and (a history) the bytes     *)
(*              written to the tunnel peer and the number of bytes         *)
(*              relayed.                                                    *)
(***************************************************************************)
VARIABLES role, cipher, running, accerrs, sess

pureVars == <<stage, arg, wire, how, res>>
hsVars == <<cfg, cpc, spc, cbuf, sbuf, c2s, s2c, cresp, sreq, cret, sret, hist>>
orchVars == <<role, cipher, running, accerrs, sess>>
vars == <<pureVars, hsVars, orchVars>>

\* The handshake variables while only the codec or the framer is exercised.
HsUnused ==
  /\ cfg = Unset
  /\ cpc = "Absent"
  /\ spc = "Absent"
  /\ cbuf = <<>>
  /\ sbuf = <<>>
  /\ c2s = <<>>
  /\ s2c = <<>>
  /\ cresp = Unset
  /\ sreq = Unset
  /\ cret = Unset
  /\ sret = Unset
  /\ hist = Unset

\* The orchestrator's variables while it is not exercised.
OrchUnused ==
  /\ role = "none"
  /\ cipher = 0
  /\ running = FALSE
  /\ accerrs = 0
  /\ sess = <<>>

\* The codec and framer variables while the handshake is exercised.
PureUnused ==
  /\ stage = "unused"
  /\ arg = Unset
  /\ wire = <<>>
  /\ how = "intact"
  /\ res = Unset

(***************************************************************************)
(* The payload codec applied to its inputs.                                *)
(***************************************************************************)
CodecInit ==
  /\ stage = "start"
  /\ arg \in Payloads \cup LongPayloads
              \cup {[kind |-> "Raw", bytes |-> b] : b \in Raws}
  /\ wire = <<>>
  /\ how = "intact"
  /\ res = Unset
  /\ HsUnused
  /\ OrchUnused

\* Payload::write into an empty buffer.
Encode ==
  /\ stage = "start"
  /\ arg.kind \in {"Req", "Resp"}
  /\ wire' = Payload_write(arg)
  /\ stage' = "encoded"
  /\ UNCHANGED <<arg, how, res, hsVars, orchVars>>

\* Payload::read of what was written.
Decode ==
  /\ stage = "encoded"
  /\ res' = Payload_read(arg.kind, wire)
  /\ stage' = "decoded"
  /\ UNCHANGED <<arg, wire, how, hsVars, orchVars>>

\* Req::read of arbitrary bytes.
DecodeRawReq ==
  /\ stage = "start"
  /\ arg.kind = "Raw"
  /\ res' = Req_read(arg.bytes)
  /\ stage' = "rawreq"
  /\ UNCHANGED <<arg, wire, how, hsVars, orchVars>>

\* Resp::read of arbitrary bytes.
DecodeRawResp ==
  /\ stage = "start"
  /\ arg.kind = "Raw"
  /\ res' = Resp_read(arg.bytes)
  /\ stage' = "rawresp"
  /\ UNCHANGED <<arg, wire, how, hsVars, orchVars>>

CodecNext == Encode \/ Decode \/ DecodeRawReq \/ DecodeRawResp

SpecCodec == CodecInit /\ [][CodecNext]_vars

(***************************************************************************)
(* The framer applied to its inputs.                                       *)
(***************************************************************************)
FramerInit ==
  /\ stage = "start"
  /\ arg \in [payload : FrPayloads, key : Keys, nonce : Nonces, header : Headers]
  /\ wire = <<>>
  /\ how = "intact"
  /\ res = Unset
  /\ HsUnused
  /\ OrchUnused

\* write_msg into a cleared buffer.
FrWrite ==
  /\ stage = "start"
  /\ wire' = write_msg(arg.key, arg.header, arg.nonce, arg.payload)
  /\ stage' = "written"
  /\ UNCHANGED <<arg, how, res, hsVars, orchVars>>

\* One bit of the nonce, the length field or the sealed payload is flipped.
FrFlip ==
  /\ stage = "written"
  /\ \E i \in (Len(arg.header) + 1)..Len(wire), k \in 0..7 :
       wire' = FlipBit(wire, i, k)
  /\ stage' = "altered"
  /\ how' = "flipped"
  /\ UNCHANGED <<arg, res, hsVars, orchVars>>

\* Only a proper prefix of the message is in the buffer.
FrCut ==
  /\ stage = "written"
  /\ \E n \in 0..(Len(wire) - 1) : wire' = SubSeq(wire, 1, n)
  /\ stage' = "altered"
  /\ how' = "cut"
  /\ UNCHANGED <<arg, res, hsVars, orchVars>>

\* read_msg with the same cipher.
FrRead ==
  /\ stage \in {"written", "altered"}
  /\ res' = read_msg(arg.key, arg.payload.kind, wire)
  /\ stage' = "read"
  /\ UNCHANGED <<arg, wire, how, hsVars, orchVars>>

FramerNext == FrWrite \/ FrFlip \/ FrCut \/ FrRead

SpecFramer == FramerInit /\ [][FramerNext]_vars

(***************************************************************************)
(* The fake header generator (get_fake_header) and the headers write_msg   *)
(* is given.  A text is a sequence of bytes (ASCII).                       *)
(***************************************************************************)
CR == 13
LF == 10

\* char::is_whitespace on ASCII: tab, LF, VT, FF, CR, space.
IsWhitespace(b) == b \in {9, 10, 11, 12, 13, 32}

\* Where the line that starts at s ends (str::split_inclusive('\n')): at the
\* next LF, or at the end of the text.
PieceEnd(t, s) ==
  IF \E i \in s..Len(t) : t[i] = LF
    THEN CHOOSE i \in s..Len(t) : t[i] = LF /\ \A j \in s..(i - 1) : t[j] # LF
    ELSE Len(t)

\* str::lines: the piece without its LF, and without a CR before that LF.
LineAt(t, s) ==
  LET e == PieceEnd(t, s)
      a == IF t[e] = LF THEN e - 1 ELSE e
      b == IF t[e] = LF /\ a >= s /\ t[a] = CR THEN a - 1 ELSE a
  IN  SubSeq(t, s, b)

\* The lines of t from position s on, in order.
RECURSIVE LinesFrom(_, _)
LinesFrom(t, s) ==
  IF s > Len(t) THEN <<>>
  ELSE <<LineAt(t, s)>> \o LinesFrom(t, PieceEnd(t, s) + 1)

Lines(t) == LinesFrom(t, 1)

\* str::trim: without the leading and trailing whitespace.
Trim(l) ==
  LET keep == {i \in 1..Len(l) : ~IsWhitespace(l[i])}
  IN  IF keep = {} THEN <<>>
      ELSE SubSeq(l, CHOOSE i \in keep : \A j \in keep : i <= j,
                     CHOOSE i \in keep : \A j \in keep : j <= i)

\* The loop without the skip of empty lines.
RECURSIVE PushLines_keep_blank(_, _)
PushLines_keep_blank(ls, acc) ==
  IF ls = <<>> THEN acc
  ELSE PushLines_keep_blank(Tail(ls), acc \o Trim(Head(ls)) \o <<CR, LF>>)

\* The loop of get_fake_header: each line is trimmed, skipped when empty,
\* else pushed followed by CRLF.
RECURSIVE PushLines(_, _)
PushLines(ls, acc) ==
  IF ls = <<>> THEN acc
  ELSE PushLines(Tail(ls),
                 IF Len(Trim(Head(ls))) = 0 THEN acc
                 ELSE acc \o Trim(Head(ls)) \o <<CR, LF>>)

\* get_fake_header: read_to_string(path).unwrap() panics on a source that
\* cannot be read; else the pushed lines and one more CRLF.
get_fake_header(src) ==
  IF src.kind = "Unreadable" THEN Panic
  ELSE Some(PushLines(Lines(src.bytes), <<>>) \o <<CR, LF>>)

MaxTextLen == 5

\* The bytes of the texts: a letter, a space, CR, LF.
TextBytes == {97, 32, CR, LF}
Texts == SeqsUpTo(TextBytes, MaxTextLen)

\* A file of one line longer than the message cap.
LongLineLen == 1300
LongText == [i \in 1..LongLineLen |-> 97]

\* The sources of a header: a file (readable or not), or one of the two
\* built-in headers.
HeaderSources ==
  {[kind |-> "Text", bytes |-> t] : t \in Texts \cup {LongText}}
    \cup {[kind |-> "Unreadable"]}
    \cup {[kind |-> "Builtin", header |-> h] :
            h \in {fake_req_header, fake_resp_header}}

HeaderInit ==
  /\ stage = "start"
  /\ arg \in HeaderSources
  /\ wire = <<>>
  /\ how = "intact"
  /\ res = Unset
  /\ HsUnused
  /\ OrchUnused

\* get_fake_header(path).
LoadHeader ==
  /\ stage = "start"
  /\ arg.kind \in {"Text", "Unreadable"}
  /\ res' = get_fake_header(arg)
  /\ stage' = "header"
  /\ UNCHANGED <<arg, wire, how, hsVars, orchVars>>

\* fake_req_header() or fake_resp_header().
BuiltinHeader ==
  /\ stage = "start"
  /\ arg.kind = "Builtin"
  /\ res' = Some(arg.header)
  /\ stage' = "header"
  /\ UNCHANGED <<arg, wire, how, hsVars, orchVars>>

\* write_msg of a Request with the longest host under that header.
HeaderWrite ==
  /\ stage = "header"
  /\ res.tag = "Some"
  /\ wire' = write_msg(1, res.val, NonceOf(0), Req(LongHost(U8_MAX), 443))
  /\ stage' = "hwritten"
  /\ UNCHANGED <<arg, how, res, hsVars, orchVars>>

HeaderNext == LoadHeader \/ BuiltinHeader \/ HeaderWrite

SpecHeader == HeaderInit /\ [][HeaderNext]_vars

(***************************************************************************)
(* One handshake session: client_handshake and server_handshake over a     *)
(* connected stream pair, or one of them against an arbitrary peer.        *)
(***************************************************************************)
\* BytesMut::with_capacity(0x500): the most one read_buf returns.
BUF_CAP == 1280

\* A message an arbitrary peer holding key k can seal: any plaintext.
SealRaw(k, header, nonce, pt) ==
  LET len == U16Bytes(Len(pt) + OVERHEAD_LEN)
  IN  header \o nonce \o len \o encrypt_in_place(k, nonce, Aad(len), pt)

\* Plaintexts an arbitrary peer seals: empty, one byte (a Reply), a Request
\* with a wrong version, a non-UTF-8 host, a missing byte, and a valid one.
InjectedPlain ==
  {<<>>, <<0>>, <<7>>, <<1, 1, 97, 1, 187>>, <<0, 1, 255, 1, 187>>,
   <<0, 1, 97, 1>>, <<0, 1, 97, 1, 187>>}

\* What an arbitrary peer sends: sealed messages under any key, bytes with
\* no EOH, a bare header, and a header followed by a nonce and a length only.
Injected ==
  {SealRaw(k, fake_req_header, NonceOf(0), pt) : k \in Keys, pt \in InjectedPlain}
    \cup {<<71, 69, 84>>, fake_resp_header,
          fake_req_header \o NonceOf(0) \o <<0, 17>>}

\* A valid message of the peer that arrives together with the bytes sent
\* after it (the first relayed bytes): one read returns both.
Coalesced ==
  {SealRaw(1, fake_req_header, NonceOf(0), pt) \o extra :
     pt \in {<<0>>, <<0, 1, 97, 1, 187>>}, extra \in {<<97>>, <<0, 0>>}}

\* The server holds key 1; the client any key.  A lone server or a lone
\* client faces the arbitrary peer.
Configs ==
  [mode : {"pair"}, ckey : Keys, skey : {1}, host : HsHosts, port : Ports,
   sheader : {fake_resp_header, fake_req_header}]
    \cup [mode : {"server"}, ckey : {1}, skey : {1}, host : {<<97>>},
          port : {443}, sheader : {fake_resp_header}]
    \cup [mode : {"client"}, ckey : {1}, skey : {1}, host : {<<97>>},
          port : {443}, sheader : {fake_resp_header}]

Init ==
  /\ PureUnused
  /\ OrchUnused
  /\ cfg \in Configs
  /\ cpc = IF cfg.mode = "server" THEN "Absent" ELSE "Idle"
  /\ spc = IF cfg.mode = "client" THEN "Absent" ELSE "Idle"
  /\ cbuf = <<>>
  /\ sbuf = <<>>
  /\ c2s = <<>>
  /\ s2c = <<>>
  /\ cresp = Unset
  /\ sreq = Unset
  /\ cret = Unset
  /\ sret = Unset
  /\ hist = [cwi |-> 0, cwr |-> 0, cri |-> 0, crr |-> 0,
             swi |-> 0, swr |-> 0, sri |-> 0, srr |-> 0,
             cwok |-> FALSE, crok |-> FALSE, sout |-> <<>>,
             cin |-> <<>>, sin |-> <<>>,
             inj |-> FALSE, closed |-> FALSE, fault |-> FALSE]

Min(a, b) == IF a <= b THEN a ELSE b

\* The peer's end of the stream is closed: its task ended in failure (its
\* socket is dropped), or the arbitrary peer closed.
PeerClosed(peerpc) ==
  \/ peerpc \in {"Failed", "Panicked"}
  \/ peerpc = "Absent" /\ hist.closed

\* What a failed write_all has put on the stream: nothing, or all but the
\* last byte (a read may take any prefix of it).
FailedWritePrefixes(buf) == {<<>>, SubSeq(buf, 1, Len(buf) - 1)}

(***************************************************************************)
(* client_handshake.                                                       *)
(***************************************************************************)
\* buf.clear(); write_msg(buf, cipher, header, &Req(host, port)); write_all
\* is issued.
ClientSend ==
  /\ cpc = "Idle"
  /\ \E nonce \in Nonces :
       cbuf' = write_msg(cfg.ckey, fake_req_header, nonce, Req(cfg.host, cfg.port))
  /\ cpc' = "SendingRequest"
  /\ hist' = [hist EXCEPT !.cwi = @ + 1]
  /\ UNCHANGED <<orchVars, pureVars, cfg, spc, sbuf, c2s, s2c, cresp, sreq, cret, sret>>

\* write_all returned Ok; buf.clear(); read_buf is issued.
ClientWriteOk ==
  /\ cpc = "SendingRequest"
  /\ c2s' = c2s \o cbuf
  /\ cbuf' = <<>>
  /\ cpc' = "AwaitingReply"
  /\ hist' = [hist EXCEPT !.cwr = @ + 1, !.cwok = TRUE, !.cri = @ + 1]
  /\ UNCHANGED <<orchVars, pureVars, cfg, spc, sbuf, s2c, cresp, sreq, cret, sret>>

\* write_all returned Err and the request is built and written again.
ClientWriteErr_retry ==
  /\ cpc = "SendingRequest"
  /\ \E sent \in FailedWritePrefixes(cbuf) : c2s' = c2s \o sent
  /\ cpc' = "Idle"
  /\ hist' = [hist EXCEPT !.cwr = @ + 1, !.fault = TRUE]
  /\ UNCHANGED <<orchVars, pureVars, cfg, spc, cbuf, sbuf, s2c, cresp, sreq, cret, sret>>

\* write_all returned Err: return None.
ClientWriteErr ==
  /\ cpc = "SendingRequest"
  /\ \E sent \in FailedWritePrefixes(cbuf) : c2s' = c2s \o sent
  /\ cpc' = "Failed"
  /\ cret' = None
  /\ hist' = [hist EXCEPT !.cwr = @ + 1, !.fault = TRUE]
  /\ UNCHANGED <<orchVars, pureVars, cfg, spc, cbuf, sbuf, s2c, cresp, sreq, sret>>

\* The reply code compared the wrong way round.
ClientOutcome_inverted(ret) ==
  IF ret.tag = "Panic" THEN [pc |-> "Panicked", ret |-> Unset]
  ELSE IF ret.tag = "None" THEN [pc |-> "Failed", ret |-> None]
  ELSE IF ret.val.code = REP_OK THEN [pc |-> "Failed", ret |-> None]
  ELSE [pc |-> "Established", ret |-> Some(<<>>)]

\* What client_handshake does with read_msg's result: None on no Reply, None
\* on a code other than REP_OK, else Some(()).  A panic unwinds the task.
ClientOutcome(ret) ==
  IF ret.tag = "Panic" THEN [pc |-> "Panicked", ret |-> Unset]
  ELSE IF ret.tag = "None" THEN [pc |-> "Failed", ret |-> None]
  ELSE IF ret.val.code # REP_OK THEN [pc |-> "Failed", ret |-> None]
  ELSE [pc |-> "Established", ret |-> Some(<<>>)]

\* read_buf returned Ok(n); read_msg::<Resp>; the reply code is compared
\* with REP_OK.
ClientRead ==
  /\ cpc = "AwaitingReply"
  /\ \E n \in 0..Min(Len(s2c), BUF_CAP) :
       /\ n = 0 => (s2c = <<>> /\ PeerClosed(spc))
       /\ LET r == ReadMsg(cfg.ckey, "Resp", SubSeq(s2c, 1, n))
          IN  /\ cbuf' = r.buf
              /\ cresp' = r.ret
              /\ cpc' = ClientOutcome(r.ret).pc
              /\ cret' = ClientOutcome(r.ret).ret
       /\ s2c' = SubSeq(s2c, n + 1, Len(s2c))
       /\ hist' = [hist EXCEPT !.crr = @ + 1, !.crok = TRUE,
                               !.cin = SubSeq(s2c, 1, n),
                               !.fault = @ \/ (n < Len(s2c))]
  /\ UNCHANGED <<orchVars, pureVars, cfg, spc, sbuf, c2s, sreq, sret>>

\* read_buf returned Err: return None.
ClientReadErr ==
  /\ cpc = "AwaitingReply"
  /\ cpc' = "Failed"
  /\ cret' = None
  /\ hist' = [hist EXCEPT !.crr = @ + 1, !.fault = TRUE]
  /\ UNCHANGED <<orchVars, pureVars, cfg, spc, cbuf, sbuf, c2s, s2c, cresp, sreq, sret>>

(***************************************************************************)
(* server_handshake.                                                       *)
(***************************************************************************)
\* buf.clear(); read_buf is issued.
ServerStart ==
  /\ spc = "Idle"
  /\ sbuf' = <<>>
  /\ spc' = "AwaitingRequest"
  /\ hist' = [hist EXCEPT !.sri = @ + 1]
  /\ UNCHANGED <<orchVars, pureVars, cfg, cpc, cbuf, c2s, s2c, cresp, sreq, cret, sret>>

\* The server replies whatever read_msg returned.
ServerReplies_always(ret) == ret.tag # "Panic"

\* Whether server_handshake goes on to reply: only with a Request from
\* read_msg (let Some(req) = read_msg(buf, cipher) else return None).
ServerReplies(ret) == ret.tag = "Some"

\* read_buf returned Ok(n); read_msg::<Req>; on a Request: buf.clear(),
\* write_msg(buf, cipher, header, &Resp(REP_OK)) and write_all is issued.
ServerRead ==
  /\ spc = "AwaitingRequest"
  /\ \E n \in 0..Min(Len(c2s), BUF_CAP) :
       /\ n = 0 => (c2s = <<>> /\ PeerClosed(cpc))
       /\ LET r == ReadMsg(cfg.skey, "Req", SubSeq(c2s, 1, n))
          IN  /\ sreq' = r.ret
              /\ IF ServerReplies(r.ret)
                   THEN /\ \E nonce \in Nonces :
                             sbuf' = write_msg(cfg.skey, cfg.sheader, nonce,
                                               Resp(REP_OK))
                        /\ spc' = "SendingReply"
                        /\ sret' = sret
                        /\ hist' = [hist EXCEPT !.srr = @ + 1, !.swi = @ + 1,
                                                !.sin = SubSeq(c2s, 1, n),
                                                !.fault = @ \/ (n < Len(c2s))]
                   ELSE /\ sbuf' = r.buf
                        /\ spc' = IF r.ret.tag = "Panic" THEN "Panicked"
                                  ELSE "Failed"
                        /\ sret' = IF r.ret.tag = "Panic" THEN Unset ELSE None
                        /\ hist' = [hist EXCEPT !.srr = @ + 1,
                                                !.sin = SubSeq(c2s, 1, n),
                                                !.fault = @ \/ (n < Len(c2s))]
       /\ c2s' = SubSeq(c2s, n + 1, Len(c2s))
  /\ UNCHANGED <<orchVars, pureVars, cfg, cpc, cbuf, s2c, cresp, cret>>

\* read_buf returned Err: return None.
ServerReadErr ==
  /\ spc = "AwaitingRequest"
  /\ spc' = "Failed"
  /\ sret' = None
  /\ hist' = [hist EXCEPT !.srr = @ + 1, !.fault = TRUE]
  /\ UNCHANGED <<orchVars, pureVars, cfg, cpc, cbuf, sbuf, c2s, s2c, cresp, sreq, cret>>

\* write_all returned Ok: return Some((host, port)).
ServerWriteOk ==
  /\ spc = "SendingReply"
  /\ s2c' = s2c \o sbuf
  /\ spc' = "Established"
  /\ sret' = IF sreq.tag = "Some"
               THEN Some(<<sreq.val.host, sreq.val.port>>)
               ELSE Some(<<>>)
  /\ hist' = [hist EXCEPT !.swr = @ + 1, !.sout = @ \o sbuf]
  /\ UNCHANGED <<orchVars, pureVars, cfg, cpc, cbuf, sbuf, c2s, cresp, sreq, cret>>

\* write_all returned Err: return None.
ServerWriteErr ==
  /\ spc = "SendingReply"
  /\ \E sent \in FailedWritePrefixes(sbuf) :
       /\ s2c' = s2c \o sent
       /\ hist' = [hist EXCEPT !.swr = @ + 1, !.sout = @ \o sent,
                               !.fault = TRUE]
  /\ spc' = "Failed"
  /\ sret' = None
  /\ UNCHANGED <<orchVars, pureVars, cfg, cpc, cbuf, sbuf, c2s, cresp, sreq, cret>>

(***************************************************************************)
(* The arbitrary peer of a lone server or a lone client.                   *)
(***************************************************************************)
\* The peer sends one message of its own, while the other side waits in its
\* read.
PeerInject ==
  /\ ~hist.inj
  /\ ~hist.closed
  /\ \E m \in Injected \cup Coalesced :
       \/ /\ cpc = "Absent"
          /\ spc = "AwaitingRequest"
          /\ c2s' = m
          /\ s2c' = s2c
       \/ /\ spc = "Absent"
          /\ cpc = "AwaitingReply"
          /\ s2c' = m
          /\ c2s' = c2s
  /\ hist' = [hist EXCEPT !.inj = TRUE]
  /\ UNCHANGED <<orchVars, pureVars, cfg, cpc, spc, cbuf, sbuf, cresp, sreq, cret, sret>>

\* The peer closes its end, while the other side waits in its read.
PeerClose ==
  /\ ~hist.closed
  /\ \/ cpc = "Absent" /\ spc = "AwaitingRequest"
     \/ spc = "Absent" /\ cpc = "AwaitingReply"
  /\ hist' = [hist EXCEPT !.closed = TRUE]
  /\ UNCHANGED <<orchVars, pureVars, cfg, cpc, spc, cbuf, sbuf, c2s, s2c, cresp, sreq,
                 cret, sret>>

ClientWrite == ClientSend \/ ClientWriteOk \/ ClientWriteErr
ServerWrite == ServerWriteOk \/ ServerWriteErr

Next ==
  \/ ClientSend \/ ClientWriteOk \/ ClientWriteErr
  \/ ClientRead \/ ClientReadErr
  \/ ServerStart \/ ServerRead \/ ServerReadErr
  \/ ServerWriteOk \/ ServerWriteErr
  \/ PeerInject \/ PeerClose

Spec == Init /\ [][Next]_vars

\* Scheduling: the tasks are polled, a write_all of a message that fits the
\* stream's buffer returns, and a read_buf returns once bytes are available
\* or the peer's end is closed.  Nothing makes an I/O error or the arbitrary
\* peer's send happen.
FairSpec ==
  /\ Spec
  /\ WF_vars(ClientWrite)
  /\ WF_vars(ClientRead)
  /\ WF_vars(ServerStart)
  /\ WF_vars(ServerRead)
  /\ WF_vars(ServerWrite)

(***************************************************************************)
(* The orchestrator: the accept loop of server() or client() and one task  *)
(* per accepted connection.  The handshake of a session is the one above,  *)
(* with its single read returning what the tunnel peer sent.               *)
(***************************************************************************)
MaxSessions == 2
MaxRelay == 1

Sessions == 1..MaxSessions

\* A connection not accepted yet.
NoSession ==
  [pc |-> "Free", end |-> "none", buf |-> <<>>, dest |-> Unset,
   front |-> "none", upstream |-> "none", inb |-> <<>>, peerclosed |-> FALSE,
   req |-> Unset, hs |-> Unset, out |-> <<>>, relayed |-> 0]

\* What the tunnel peer of a server session sends: a Request sealed under
\* any key, one followed by more bytes, a bare header, bytes with no EOH.
ServerInputs ==
  {write_msg(k, fake_req_header, NonceOf(0), Req(<<97>>, 443)) : k \in Keys}
    \cup {write_msg(1, fake_req_header, NonceOf(0), Req(<<97>>, 443)) \o <<97>>,
          fake_req_header, <<71, 69, 84>>}

\* What the tunnel peer of a client session sends: a Reply sealed under any
\* key with any code, one followed by more bytes, a bare header.
ClientInputs ==
  {write_msg(k, fake_resp_header, NonceOf(0), Resp(c)) :
     k \in Keys, c \in {REP_OK, 1}}
    \cup {write_msg(1, fake_resp_header, NonceOf(0), Resp(REP_OK)) \o <<97>>,
          fake_resp_header}

\* The destinations the SOCKS5 front end resolves.
Dests == {<<<<97>>, 443>>}

OrchInit ==
  /\ PureUnused
  /\ HsUnused
  /\ role \in {"server", "client"}
  /\ cipher = 1
  /\ running = TRUE
  /\ accerrs = 0
  /\ sess = [i \in Sessions |-> NoSession]

\* The task returns (or unwinds): its sockets and its buffer are dropped.
Closed(s, why) ==
  [s EXCEPT !.pc = "Done", !.end = why, !.buf = <<>>, !.inb = <<>>,
            !.peerclosed = FALSE, !.req = Unset,
            !.front = "closed",
            !.upstream = IF @ = "open" THEN "closed" ELSE @]

\* One buffer shared by all the sessions: a failing session's drop clears it.
Fail_shared_buffer(i, s, why) ==
  [j \in Sessions |->
     IF j = i THEN Closed(s, why) ELSE [sess[j] EXCEPT !.buf = <<>>]]

\* Session i ends in a failure: only its own state changes.
Fail(i, s, why) == [sess EXCEPT ![i] = Closed(s, why)]

\* The relay starts whatever the handshake returned.
HandshakeGate_open(hs) == TRUE

\* let Some(..) = handshake(..).await else { return }.
HandshakeGate(hs) == hs.tag = "Some"

\* l.accept() returned Ok: the task is spawned with a new buffer and starts
\* (server: server_handshake clears buf and issues read_buf; client: the
\* SOCKS5 front end runs).
Accept(i) ==
  /\ running
  /\ sess[i].pc = "Free"
  /\ \A j \in 1..(i - 1) : sess[j].pc # "Free"
  /\ sess' = [sess EXCEPT ![i] =
                [@ EXCEPT !.pc = IF role = "server" THEN "HsRead" ELSE "Socks",
                          !.front = "open"]]
  /\ UNCHANGED <<role, cipher, running, accerrs, pureVars, hsVars>>

\* The loop goes on after an accept error.
AcceptErr_continue ==
  /\ running
  /\ accerrs < 1
  /\ accerrs' = accerrs + 1
  /\ UNCHANGED <<role, cipher, running, sess, pureVars, hsVars>>

\* l.accept() returned Err: the while-let loop ends, server()/client()
\* returns Some(()), run_until returns and the LocalSet is dropped with the
\* tasks still in it.
AcceptErr ==
  /\ running
  /\ accerrs < 1
  /\ running' = FALSE
  /\ accerrs' = accerrs + 1
  /\ sess' = [j \in Sessions |->
                IF sess[j].pc \in {"Free", "Done"} THEN sess[j]
                ELSE Closed(sess[j], "aborted")]
  /\ UNCHANGED <<role, cipher, pureVars, hsVars>>

\* The tunnel peer sends, while the session waits in its handshake read.
TunnelSend(i) ==
  /\ running
  /\ sess[i].pc = "HsRead"
  /\ sess[i].inb = <<>>
  /\ ~sess[i].peerclosed
  /\ \E m \in IF role = "server" THEN ServerInputs ELSE ClientInputs :
       sess' = [sess EXCEPT ![i] = [@ EXCEPT !.inb = m]]
  /\ UNCHANGED <<role, cipher, running, accerrs, pureVars, hsVars>>

\* The tunnel peer closes, while the session waits in its handshake read.
TunnelClose(i) ==
  /\ running
  /\ sess[i].pc = "HsRead"
  /\ sess[i].inb = <<>>
  /\ ~sess[i].peerclosed
  /\ sess' = [sess EXCEPT ![i] = [@ EXCEPT !.peerclosed = TRUE]]
  /\ UNCHANGED <<role, cipher, running, accerrs, pureVars, hsVars>>

\* server(): what follows server_handshake's return.
AfterServerHandshake(i, s, hs) ==
  IF HandshakeGate(hs)
    THEN [sess EXCEPT ![i] = [s EXCEPT !.hs = hs, !.dest = hs,
                                       !.pc = "Connecting"]]
    ELSE Fail(i, [s EXCEPT !.hs = hs], "hsfail")

\* client(): what follows client_handshake's return.
AfterClientHandshake(i, s, hs) ==
  IF HandshakeGate(hs)
    THEN [sess EXCEPT ![i] = [s EXCEPT !.hs = hs, !.pc = "Relay"]]
    ELSE Fail(i, [s EXCEPT !.hs = hs], "hsfail")

\* server_handshake: read_buf returned; read_msg::<Req>; on a Request the
\* reply is built and write_all is issued, else the handshake returns None
\* (or the task unwinds on a panic).
SrvRead(i) ==
  /\ running
  /\ role = "server"
  /\ sess[i].pc = "HsRead"
  /\ sess[i].inb # <<>> \/ sess[i].peerclosed
  /\ LET r == ReadMsg(cipher, "Req", sess[i].inb)
     IN  IF ServerReplies(r.ret)
           THEN \E nonce \in Nonces :
                  sess' = [sess EXCEPT ![i] =
                             [@ EXCEPT !.buf = write_msg(cipher, fake_resp_header,
                                                         nonce, Resp(REP_OK)),
                                       !.req = r.ret,
                                       !.inb = <<>>,
                                       !.pc = "HsWrite"]]
           ELSE IF r.ret.tag = "Panic"
                  THEN sess' = Fail(i, sess[i], "panic")
                  ELSE sess' = AfterServerHandshake(i, sess[i], None)
  /\ UNCHANGED <<role, cipher, running, accerrs, pureVars, hsVars>>

\* server_handshake: read_buf returned Err.
SrvReadErr(i) ==
  /\ running
  /\ role = "server"
  /\ sess[i].pc = "HsRead"
  /\ sess' = AfterServerHandshake(i, sess[i], None)
  /\ UNCHANGED <<role, cipher, running, accerrs, pureVars, hsVars>>

\* server_handshake: write_all returned Ok and the handshake returns the
\* destination; server() issues the upstream connect.
SrvWriteOk(i) ==
  /\ running
  /\ role = "server"
  /\ sess[i].pc = "HsWrite"
  /\ sess' = AfterServerHandshake(i, [sess[i] EXCEPT !.out = @ \o sess[i].buf],
                Some(<<sess[i].req.val.host, sess[i].req.val.port>>))
  /\ UNCHANGED <<role, cipher, running, accerrs, pureVars, hsVars>>

\* server_handshake: write_all returned Err.
SrvWriteErr(i) ==
  /\ running
  /\ role = "server"
  /\ sess[i].pc = "HsWrite"
  /\ \E sent \in FailedWritePrefixes(sess[i].buf) :
       sess' = AfterServerHandshake(i, [sess[i] EXCEPT !.out = @ \o sent], None)
  /\ UNCHANGED <<role, cipher, running, accerrs, pureVars, hsVars>>

\* server(): the upstream connect succeeded; duplex starts.
SrvConnectOk(i) ==
  /\ running
  /\ role = "server"
  /\ sess[i].pc = "Connecting"
  /\ sess' = [sess EXCEPT ![i] = [@ EXCEPT !.upstream = "open", !.pc = "Relay"]]
  /\ UNCHANGED <<role, cipher, running, accerrs, pureVars, hsVars>>

\* The connect failure is reported to the client with a reply of code 1.
SrvConnectErr_reported(i) ==
  /\ running
  /\ role = "server"
  /\ sess[i].pc = "Connecting"
  /\ sess' = Fail(i, [sess[i] EXCEPT !.out = @ \o write_msg(cipher,
                        fake_resp_header, NonceOf(0), Resp(1))], "connfail")
  /\ UNCHANGED <<role, cipher, running, accerrs, pureVars, hsVars>>

\* server(): the upstream connect failed; the task returns.
SrvConnectErr(i) ==
  /\ running
  /\ role = "server"
  /\ sess[i].pc = "Connecting"
  /\ sess' = Fail(i, sess[i], "connfail")
  /\ UNCHANGED <<role, cipher, running, accerrs, pureVars, hsVars>>

\* client(): the SOCKS5 front end returned a destination; the connect to
\* the server is issued.
SocksOk(i) ==
  /\ running
  /\ role = "client"
  /\ sess[i].pc = "Socks"
  /\ \E d \in Dests :
       sess' = [sess EXCEPT ![i] = [@ EXCEPT !.dest = Some(d),
                                             !.pc = "Connecting"]]
  /\ UNCHANGED <<role, cipher, running, accerrs, pureVars, hsVars>>

\* client(): the SOCKS5 front end failed; the task returns.
SocksErr(i) ==
  /\ running
  /\ role = "client"
  /\ sess[i].pc = "Socks"
  /\ sess' = Fail(i, sess[i], "socksfail")
  /\ UNCHANGED <<role, cipher, running, accerrs, pureVars, hsVars>>

\* client(): the connect to the server succeeded; client_handshake builds
\* the Request and issues write_all.
CliConnectOk(i) ==
  /\ running
  /\ role = "client"
  /\ sess[i].pc = "Connecting"
  /\ \E nonce \in Nonces :
       sess' = [sess EXCEPT ![i] =
                  [@ EXCEPT !.upstream = "open",
                            !.buf = write_msg(cipher, fake_req_header, nonce,
                                        Req(sess[i].dest.val[1], sess[i].dest.val[2])),
                            !.pc = "HsWrite"]]
  /\ UNCHANGED <<role, cipher, running, accerrs, pureVars, hsVars>>

\* client(): the connect to the server failed; the task returns.
CliConnectErr(i) ==
  /\ running
  /\ role = "client"
  /\ sess[i].pc = "Connecting"
  /\ sess' = Fail(i, sess[i], "connfail")
  /\ UNCHANGED <<role, cipher, running, accerrs, pureVars, hsVars>>

\* client_handshake: write_all returned Ok; buf.clear(); read_buf is issued.
CliWriteOk(i) ==
  /\ running
  /\ role = "client"
  /\ sess[i].pc = "HsWrite"
  /\ sess' = [sess EXCEPT ![i] = [@ EXCEPT !.out = @ \o sess[i].buf,
                                           !.buf = <<>>,
                                           !.pc = "HsRead"]]
  /\ UNCHANGED <<role, cipher, running, accerrs, pureVars, hsVars>>

\* client_handshake: write_all returned Err.
CliWriteErr(i) ==
  /\ running
  /\ role = "client"
  /\ sess[i].pc = "HsWrite"
  /\ \E sent \in FailedWritePrefixes(sess[i].buf) :
       sess' = AfterClientHandshake(i, [sess[i] EXCEPT !.out = @ \o sent], None)
  /\ UNCHANGED <<role, cipher, running, accerrs, pureVars, hsVars>>

\* client_handshake: read_buf returned; read_msg::<Resp>; the code is
\* compared with REP_OK; on Some(()) client() starts duplex.
CliRead(i) ==
  /\ running
  /\ role = "client"
  /\ sess[i].pc = "HsRead"
  /\ sess[i].inb # <<>> \/ sess[i].peerclosed
  /\ LET r == ReadMsg(cipher, "Resp", sess[i].inb)
         o == ClientOutcome(r.ret)
     IN  IF o.pc = "Panicked"
           THEN sess' = Fail(i, sess[i], "panic")
           ELSE sess' = AfterClientHandshake(i,
                          [sess[i] EXCEPT !.buf = r.buf, !.inb = <<>>], o.ret)
  /\ UNCHANGED <<role, cipher, running, accerrs, pureVars, hsVars>>

\* client_handshake: read_buf returned Err.
CliReadErr(i) ==
  /\ running
  /\ role = "client"
  /\ sess[i].pc = "HsRead"
  /\ sess' = AfterClientHandshake(i, sess[i], None)
  /\ UNCHANGED <<role, cipher, running, accerrs, pureVars, hsVars>>

\* duplex: one more byte is copied from one socket to the other.
RelayCopy(i) ==
  /\ running
  /\ sess[i].pc = "Relay"
  /\ sess[i].relayed < MaxRelay
  /\ sess' = [sess EXCEPT ![i] = [@ EXCEPT !.relayed = @ + 1]]
  /\ UNCHANGED <<role, cipher, running, accerrs, pureVars, hsVars>>

\* duplex: either side closed or failed; the task returns.
RelayEnd(i) ==
  /\ running
  /\ sess[i].pc = "Relay"
  /\ sess' = Fail(i, sess[i], "relayend")
  /\ UNCHANGED <<role, cipher, running, accerrs, pureVars, hsVars>>

OrchNext ==
  \/ \E i \in Sessions : Accept(i)
  \/ AcceptErr
  \/ \E i \in Sessions : TunnelSend(i)
  \/ \E i \in Sessions : TunnelClose(i)
  \/ \E i \in Sessions : SrvRead(i)
  \/ \E i \in Sessions : SrvReadErr(i)
  \/ \E i \in Sessions : SrvWriteOk(i)
  \/ \E i \in Sessions : SrvWriteErr(i)
  \/ \E i \in Sessions : SrvConnectOk(i)
  \/ \E i \in Sessions : SrvConnectErr(i)
  \/ \E i \in Sessions : SocksOk(i)
  \/ \E i \in Sessions : SocksErr(i)
  \/ \E i \in Sessions : CliConnectOk(i)
  \/ \E i \in Sessions : CliConnectErr(i)
  \/ \E i \in Sessions : CliWriteOk(i)
  \/ \E i \in Sessions : CliWriteErr(i)
  \/ \E i \in Sessions : CliRead(i)
  \/ \E i \in Sessions : CliReadErr(i)
  \/ \E i \in Sessions : RelayCopy(i)
  \/ \E i \in Sessions : RelayEnd(i)

SpecOrch == OrchInit /\ [][OrchNext]_vars

\* What the reactor makes happen in a session: a read with bytes available
\* (or a closed peer) returns, a write returns, a connect returns.
Progress(i) ==
  \/ SrvRead(i) \/ SrvWriteOk(i) \/ SrvWriteErr(i)
  \/ SrvConnectOk(i) \/ SrvConnectErr(i)
  \/ CliConnectOk(i) \/ CliConnectErr(i)
  \/ CliWriteOk(i) \/ CliWriteErr(i) \/ CliRead(i)

\* Scheduling: every spawned task is polled while the accept loop runs.
\* Nothing makes the tunnel peer send or close, and there is no timer.
FairOrch == SpecOrch /\ \A i \in Sessions : WF_vars(Progress(i))

(***************************************************************************)
(* Properties of the payload codec (under SpecCodec).                      *)
(***************************************************************************)
\* C7: decoding what Req::write wrote for a host of 1..255 bytes yields the
\* same (host, port); decoding what Resp::write wrote yields the same code;
\* Resp::read succeeds only on buffers of length 1.
C7_CodecRoundTrip ==
  /\ (stage = "decoded" /\ arg.kind = "Req" /\ Len(arg.host) \in 1..255)
       => res = Some(Req(arg.host, arg.port))
  /\ (stage = "decoded" /\ arg.kind = "Resp") => res = Some(Resp(arg.code))
  /\ (stage = "rawresp" /\ res.tag = "Some") => Len(arg.bytes) = 1

C7_Witness ==
  /\ stage = "decoded"
  /\ arg.kind = "Req"
  /\ arg.host = <<195, 169>>
  /\ arg.port = 3338
  /\ res = Some(arg)

\* A plaintext the Request format rejects: a wrong version, a length other
\* than 2 + host_length + 2, or a host that is not UTF-8.
ReqMalformed(b) ==
  \/ Len(b) < 2
  \/ b[1] # VER
  \/ Len(b) # 2 + b[2] + 2
  \/ ~ValidUtf8(Slice(b, 2, 2 + b[2]))

\* C8: Req::read of any byte sequence does not abort, and returns None for
\* every malformed one.
C8_ReqReadStrict ==
  stage = "rawreq"
    => /\ res.tag # "Panic"
       /\ ReqMalformed(arg.bytes) => res = None

(***************************************************************************)
(* Properties of the framer (under SpecFramer).                            *)
(***************************************************************************)
\* The 0-based offset of the sealed payload in a written message.
SealedOffset == Len(arg.header) + NONCE_LEN + 2

\* The value of the length field of the buffer.
WireLenField == U16From(Slice(wire, SealedOffset - 2, SealedOffset))

\* C4: after one bit of the nonce, the length field or the sealed payload of
\* a written message is flipped, read_msg under the same key returns None.
C4_TamperDetected ==
  (stage = "read" /\ how = "flipped") => res = None

C4_Witness ==
  /\ stage = "read"
  /\ how = "flipped"
  /\ GoodHeader(arg.header)
  /\ Slice(wire, SealedOffset - 2, SealedOffset) # LenField(arg.payload)
  /\ res = None

\* C5: read_msg of an unaltered message written under a header that ends in
\* its only EOH, for a Reply or a Request with a host of at most 255 bytes,
\* returns the payload written, whatever the nonce.
C5_FramerRoundTrip ==
  (/\ stage = "read"
   /\ how = "intact"
   /\ GoodHeader(arg.header)
   /\ arg.payload.kind = "Req" => Len(arg.payload.host) <= 255)
    => res = Some(arg.payload)

C5_Witness ==
  /\ stage = "read"
  /\ how = "intact"
  /\ arg.header = fake_req_header
  /\ arg.nonce = NonceOf(1)
  /\ arg.payload.kind = "Req"
  /\ res = Some(arg.payload)

\* C6: the length field of a written message is the number of sealed bytes
\* that follow it, the plaintext length plus the tag length.
C6_LengthField ==
  stage = "written"
    => /\ WireLenField = Len(wire) - SealedOffset
       /\ WireLenField = Len(Payload_write(arg.payload)) + OVERHEAD_LEN

\* C9: read_msg of a buffer holding only a proper prefix of a message
\* returns None.
C9_FramingErrorsReturned ==
  (stage = "read" /\ how = "cut") => res = None

(***************************************************************************)
(* Properties of the handshake (under Spec and FairSpec).                  *)
(***************************************************************************)
Terminal(pc) == pc \in {"Established", "Failed", "Panicked"}

\* A client and a server with the same key and a host of 1..255 bytes.
SameKeyPair ==
  /\ cfg.mode = "pair"
  /\ cfg.ckey = cfg.skey
  /\ Len(cfg.host) \in 1..255

BothEstablished ==
  /\ cpc = "Established"
  /\ cret = Some(<<>>)
  /\ spc = "Established"
  /\ sret = Some(<<cfg.host, cfg.port>>)

\* C1: with the same key, no I/O error and each message delivered in one
\* read, both handshakes end: the client returns Some(()) and the server
\* returns the (host, port) the client sent.
C1_EndToEnd ==
  /\ [](SameKeyPair /\ ~hist.fault
          => /\ Terminal(cpc) => cret = Some(<<>>)
             /\ Terminal(spc) => sret = Some(<<cfg.host, cfg.port>>))
  /\ SameKeyPair ~> (hist.fault \/ BothEstablished)

C1_Witness ==
  /\ SameKeyPair
  /\ ~hist.fault
  /\ cfg.host = <<97>>
  /\ cfg.port = 443
  /\ BothEstablished

\* C2: when the server's read or read_msg fails (a message sealed under
\* another key included), the server returns no destination and has written
\* nothing; it writes only after read_msg returned a Request.
C2_ServerSilent ==
  /\ (hist.swi >= 1 \/ hist.sout # <<>>) => sreq.tag = "Some"
  /\ (hist.srr >= 1 /\ sreq.tag # "Some")
       => /\ hist.sout = <<>>
          /\ sret.tag # "Some"
          /\ spc \in {"Failed", "Panicked"}
  /\ (cfg.mode = "pair" /\ cfg.ckey # cfg.skey) => sreq.tag # "Some"

C2_Witness ==
  /\ cfg.mode = "pair"
  /\ cfg.ckey # cfg.skey
  /\ ~hist.fault
  /\ hist.srr = 1
  /\ c2s = <<>>
  /\ sreq = None
  /\ spc = "Failed"
  /\ sret = None
  /\ hist.sout = <<>>

\* The client's write and read succeeded and read_msg returned a Reply with
\* code 0.
ClientAllOk ==
  /\ hist.cwok
  /\ hist.crok
  /\ cresp.tag = "Some"
  /\ cresp.val.code = 0

\* C3: the client ends Established (Some(())) exactly when ClientAllOk; any
\* failed write, failed read, framer failure or non-zero code ends in Failed
\* (None); no second request is written.
C3_ClientOutcome ==
  /\ cpc = "Established" <=> (hist.crr >= 1 /\ ClientAllOk)
  /\ cpc = "Established" => cret = Some(<<>>)
  /\ ((hist.cwr >= 1 /\ ~hist.cwok) \/ (hist.crr >= 1 /\ ~ClientAllOk))
       => (cpc = "Failed" /\ cret = None)
  /\ hist.cwi <= 1

\* C10: each side issues at most one write and one read, never both at once;
\* the client's read is issued only after its write returned Ok, the server's
\* write only after its read returned and read_msg gave a Request; an
\* established side has done exactly one of each.
C10_StrictOrdering ==
  /\ hist.cwi <= 1 /\ hist.cri <= 1 /\ hist.swi <= 1 /\ hist.sri <= 1
  /\ (hist.cwi - hist.cwr) + (hist.cri - hist.crr) <= 1
  /\ (hist.swi - hist.swr) + (hist.sri - hist.srr) <= 1
  /\ hist.cri >= 1 => (hist.cwr = 1 /\ hist.cwok)
  /\ hist.swi >= 1 => (hist.srr = 1 /\ sreq.tag = "Some")
  /\ cpc = "Established" => (hist.cwr = 1 /\ hist.crr = 1)
  /\ spc = "Established" => (hist.srr = 1 /\ hist.swr = 1)

C10_Witness ==
  /\ cpc = "Established"
  /\ spc = "Established"
  /\ hist.cwr = 1 /\ hist.crr = 1 /\ hist.srr = 1 /\ hist.swr = 1


(***************************************************************************)
(* Properties of the fake header generator (under SpecHeader).             *)
(***************************************************************************)
EndsInEOH(b) == Len(b) >= Len(EOH) /\ SubSeq(b, Len(b) - 3, Len(b)) = EOH
EOHAt(b, i) == SubSeq(b, i, i + 3) = EOH
NonBlank(t) == SelectSeq(t, LAMBDA c : ~IsWhitespace(c))

\* C15: for a text with a non-blank line, get_fake_header returns bytes that
\* end in CRLFCRLF with no earlier CRLFCRLF, that do not start with
\* whitespace, and whose non-whitespace bytes are those of the text.
C15_HeaderNormalized ==
  (stage = "header" /\ arg.kind = "Text" /\ NonBlank(arg.bytes) # <<>>)
    => /\ res.tag = "Some"
       /\ EndsInEOH(res.val)
       /\ \A i \in 1..(Len(res.val) - 4) : ~EOHAt(res.val, i)
       /\ ~IsWhitespace(res.val[1])
       /\ NonBlank(res.val) = NonBlank(arg.bytes)

C15_Witness ==
  /\ stage = "header"
  /\ arg.kind = "Text"
  /\ arg.bytes = <<32, 97, CR, LF, LF>>
  /\ res = Some(<<97, CR, LF, CR, LF>>)

\* C16: get_fake_header fails only on a source that cannot be read, and its
\* result for every readable source ends in CRLFCRLF.
C16_HeaderTerminated ==
  (stage = "header" /\ arg.kind \in {"Text", "Unreadable"})
    => /\ res.tag = "Panic" <=> arg.kind = "Unreadable"
       /\ arg.kind = "Text" => (res.tag = "Some" /\ EndsInEOH(res.val))

\* C14: the message write_msg builds for a Request with a 255-byte host
\* under any supported header is at most 1280 bytes long.
C14_SizeBound ==
  stage = "hwritten" => Len(wire) <= BUF_CAP

(***************************************************************************)
(* Properties of the single handshake read (under Spec).                   *)
(***************************************************************************)
\* The one whole message the other side built for this session: the
\* server's reply or the client's request in full, or a message of the
\* arbitrary peer without bytes after it.
WholeReply(b) ==
  IF cfg.mode = "pair"
    THEN \E nonce \in Nonces :
           b = write_msg(cfg.skey, cfg.sheader, nonce, Resp(REP_OK))
    ELSE b \in Injected

WholeRequest(b) ==
  IF cfg.mode = "pair"
    THEN \E nonce \in Nonces :
           b = write_msg(cfg.ckey, fake_req_header, nonce, Req(cfg.host, cfg.port))
    ELSE b \in Injected

\* C18: a handshake succeeds only if its one read returned exactly one whole
\* message: not a prefix of it, and not the message followed by more bytes.
C18_SingleReadFraming ==
  /\ cpc = "Established" => WholeReply(hist.cin)
  /\ sreq.tag = "Some" => WholeRequest(hist.sin)

C18_Witness ==
  /\ cfg.mode = "client"
  /\ cpc = "Failed"
  /\ hist.cin = SealRaw(1, fake_req_header, NonceOf(0), <<0>>) \o <<97>>

(***************************************************************************)
(* Properties of the orchestrator (under SpecOrch and FairOrch).           *)
(***************************************************************************)
\* C11: a session relays only after its handshake returned success; a
\* session whose handshake failed (returned None, or panicked) has relayed
\* nothing and has no open socket.
C11_RelayGating ==
  \A i \in Sessions :
    /\ (sess[i].pc = "Relay" \/ sess[i].relayed > 0) => sess[i].hs.tag = "Some"
    /\ (sess[i].hs.tag = "None" \/ sess[i].end = "panic")
         => /\ sess[i].relayed = 0
            /\ sess[i].front = "closed"
            /\ sess[i].upstream # "open"

C11_Witness ==
  /\ role = "client"
  /\ \E i, j \in Sessions :
       /\ sess[i].end = "hsfail"
       /\ sess[i].upstream = "closed"
       /\ sess[i].out # <<>>
       /\ sess[j].relayed > 0

\* C12: every session that is in its handshake eventually leaves it (to the
\* relay, or to its end with its sockets closed), whatever the peer does.
C12_HandshakeTerminates ==
  \A i \in Sessions :
    (sess[i].pc \in {"HsRead", "HsWrite"})
      ~> (sess[i].pc \notin {"HsRead", "HsWrite"}
            /\ (sess[i].pc = "Done" => sess[i].front = "closed"
                                         /\ sess[i].upstream # "open"))

\* The ways one session fails.
Failures == {"hsfail", "panic", "connfail", "socksfail", "relayend"}

\* C13: the cipher never changes, and a step in which a session fails
\* leaves every other session, and the accept loop, as they were.
C13_FailureContained ==
  [][/\ cipher' = cipher
     /\ \A i \in Sessions :
          (sess[i].end = "none" /\ sess'[i].end \in Failures)
            => /\ \A j \in Sessions \ {i} : sess'[j] = sess[j]
               /\ running' = running
               /\ sess'[i].buf = <<>>
               /\ sess'[i].front = "closed"]_vars

C13_Witness ==
  /\ running
  /\ \E i, j \in Sessions :
       /\ sess[i].end = "panic"
       /\ sess[j].pc = "HsWrite"
       /\ sess[j].buf # <<>>

\* C19: a server session attempts the upstream connect only after it wrote
\* its reply, which is one message with code 0, and writes nothing after it;
\* when the connect fails the session has relayed nothing and the client,
\* reading that reply, is Established.
C19_OptimisticReply ==
  role = "server" =>
    \A i \in Sessions :
      /\ (sess[i].pc \in {"Connecting", "Relay"}
            \/ sess[i].end \in {"connfail", "relayend"})
           => read_msg(cipher, "Resp", sess[i].out) = Some(Resp(REP_OK))
      /\ sess[i].end = "connfail"
           => /\ sess[i].relayed = 0
              /\ sess[i].upstream = "none"
              /\ ClientOutcome(read_msg(cipher, "Resp", sess[i].out)).pc
                   = "Established"

C19_Witness ==
  /\ role = "server"
  /\ \E i \in Sessions :
       /\ sess[i].end = "connfail"
       /\ sess[i].hs = Some(<<<<97>>, 443>>)
       /\ ClientOutcome(read_msg(cipher, "Resp", sess[i].out)).pc = "Established"

\* C20: the step of an accept error stops the run with no session left in
\* handshake or relay, and once the run has stopped nothing changes: no
\* connection is accepted and no session moves.
C20_AcceptErrorEndsAll ==
  [][/\ accerrs' > accerrs
          => /\ ~running'
             /\ \A i \in Sessions : sess'[i].pc \in {"Free", "Done"}
     /\ ~running => (sess' = sess /\ running' = running)]_vars

C20_Witness ==
  /\ ~running
  /\ accerrs = 1
  /\ \E i, j \in Sessions :
       /\ sess[i].end = "aborted"
       /\ sess[i].relayed > 0
       /\ sess[j].pc = "Free"
=============================================================================
